---- MODULE Spec2Model ----
(***************************************************************************)
(* ForecastBot: the change-detection pipeline of src/fetch_forecast_v2.py.  *)
(*                                                                         *)
(* One run of main() is a sequence of steps separated by its I/O calls:    *)
(* fetch, process_opportunities (load + detect), save_seen_ids (open for   *)
(* writing, then dump), the CSV export, and the two post_to_teams calls.   *)
(* The durable state is the two files under data/processed; everything     *)
(* else lives for one run.  SpecMalformed adds feeds with a record that    *)
(* lacks the id; SpecV1 is the run of src/fetch_forecast.py.                *)
(***************************************************************************)
EXTENDS Integers, Sequences, FiniteSets, TLC

\* ---- bounds of the model ------------------------------------------------
MaxDay  == 2      \* calendar days the runs spread over

\* ---- identifiers --------------------------------------------------------
\* A feed id is a JSON number or a JSON string.  v is its text, k its Python
\* type: 1 and "1" are different dictionary keys and different set members.
NumText   == {"1"}
AlphaText == {"A"}
IntId(t)  == [k |-> "int", v |-> t]
StrId(t)  == [k |-> "str", v |-> t]
FeedIds   == {IntId(t) : t \in NumText} \cup {StrId(t) : t \in AlphaText}

Range(s) == {s[i] : i \in 1..Len(s)}

\* A record without the id field: pd.DataFrame fills its ID cell with NaN, and
\* a column of numbers with a NaN in it is float64 (1 becomes 1.0); a column
\* that also holds a string stays object and keeps the number 1 as it is.
Missing    == [k |-> "none", v |-> ""]
NaN        == [k |-> "float", v |-> "nan"]
FloatId(t) == [k |-> "float", v |-> t \o ".0"]
FloatText  == {t \o ".0" : t \in NumText}

DataFrame(raw) ==
    LET numeric == \A i \in 1..Len(raw) : raw[i].k \in {"int", "none"}
    IN  [i \in 1..Len(raw) |->
            IF raw[i] = Missing THEN NaN
            ELSE IF raw[i].k = "int" /\ numeric /\ Missing \in Range(raw)
                 THEN FloatId(raw[i].v)
                 ELSE raw[i]]

\* str(row_id)
str(id) == StrId(id.v)

\* filtered snapshots: sequences of distinct ids (ids are unique in a snapshot)
Snapshots ==
    {s \in UNION {[1..n -> FeedIds] : n \in 0..Cardinality(FeedIds)} :
        \A i, j \in 1..Len(s) : i # j => s[i] # s[j]}

\* filtered snapshots of a feed in which one record has no id field, alone or
\* beside one well-formed record
MalformedFeeds ==
    {s \in UNION {[1..n -> FeedIds \cup {Missing}] : n \in 1..Cardinality(FeedIds)} :
        /\ Missing \in Range(s)
        /\ \A i, j \in 1..Len(s) : i # j => s[i] # s[j]}

\* ---- the two files ------------------------------------------------------
EmptyDict == [key \in {} |-> 0]

\* seen_ids_v2.json: absent, unparseable (empty or cut short), or a JSON
\* object mapping string keys to dates
MissingFile   == [st |-> "missing", map |-> EmptyDict]
TruncatedFile == [st |-> "corrupt", map |-> EmptyDict]
JsonFile(d)   == [st |-> "ok", map |-> d]

\* seen_ids.json of fetch_forecast.py: absent, unparseable, or a JSON array of
\* ids (an array keeps a number a number and a string a string)
NoListFile        == [st |-> "missing", ids |-> {}]
TruncatedListFile == [st |-> "corrupt", ids |-> {}]
ListFile(ids)     == [st |-> "ok", ids |-> ids]

\* filtered_forecast.csv: absent, or the text of the "APFS Number" column
NoExport       == [st |-> "missing", rows |-> <<>>]
CsvFile(cells) == [st |-> "ok", rows |-> cells]

VARIABLES
    pc,               \* position of the current run in main()
    today,            \* date of the current run
    seen_file,        \* data/processed/seen_ids_v2.json
    export_file,      \* data/processed/filtered_forecast.csv
    df_filtered,      \* the filtered snapshot (its ID column)
    new_df,           \* process_opportunities: appeared rows
    disappeared_df,   \* process_opportunities: disappeared rows
    seen_ids,         \* process_opportunities: updated state
    posted_new,       \* ids delivered by the "new" post of this run
    posted_dis,       \* <<id, last seen>> delivered by the "disappeared" post
    exit_code,        \* process exit status of the run (0 while running)
    failed_at,        \* the step whose exception ended the run
    file_before,      \* history: seen_file when the run started
    observed,         \* history: ids of the snapshots of earlier runs that saved
    prev,             \* history: the previous run
    intact,           \* history: no save has been interrupted so far
    v1_file,          \* data/processed/seen_ids.json of fetch_forecast.py
    v1_before         \* history: v1_file when the run started

vars == <<pc, today, seen_file, export_file, df_filtered, new_df,
          disappeared_df, seen_ids, posted_new, posted_dis, exit_code,
          failed_at, file_before, observed, prev, intact, v1_file, v1_before>>

\* ---- State Store -------------------------------------------------------
\* load_seen_ids: json.load of the file; FileNotFoundError and JSONDecodeError
\* are caught and give {}.  raised tells whether an exception leaves the call.
\* the except clause without JSONDecodeError: an unparseable file raises
load_seen_ids_uncaught(file) ==
    IF file.st = "ok"
    THEN [raised |-> FALSE, val |-> file.map]
    ELSE [raised |-> file.st = "corrupt", val |-> EmptyDict]

load_seen_ids(file) ==
    IF file.st = "ok"
    THEN [raised |-> FALSE, val |-> file.map]
    ELSE [raised |-> FALSE, val |-> EmptyDict]

\* json.dump of a dict writes every key as a JSON string (a number key 1 is
\* written "1") and every value as it is; json.load gives the object back
\* with those string keys.
json_dump(d) ==
    [key \in {str(k) : k \in DOMAIN d} |->
        d[CHOOSE k \in DOMAIN d : str(k) = key]]

\* the v1 form of the dump, json.dump(sorted(seen), f): the keys are written,
\* the dates are not
save_dump_keys_only(file, seen) ==
    JsonFile([key \in {str(k) : k \in DOMAIN seen} |-> 0])

\* save_seen_ids is open(path, "w") followed by json.dump: the open truncates
\* the file in place, the dump then writes the new object into it.
save_open(file)       == TruncatedFile
save_dump(file, seen) == JsonFile(json_dump(seen))

\* ---- CSV export ---------------------------------------------------------
\* to_csv writes each id as its text: the number 1 and the string "1" both
\* become the cell 1.
to_csv(df) == CsvFile([i \in 1..Len(df) |-> IF df[i] = NaN THEN "" ELSE df[i].v])

\* pd.read_csv infers one dtype per column: a column whose cells all parse as
\* integers comes back as int64, a column of numbers and empty cells as
\* float64 (an empty cell is NaN), any other column as strings (and NaN).
read_csv(file) ==
    IF file.st = "missing"
    THEN [raised |-> TRUE, ids |-> <<>>]
    ELSE [raised |-> FALSE,
          ids |-> IF \A i \in 1..Len(file.rows) : file.rows[i] \in NumText
                  THEN [i \in 1..Len(file.rows) |-> IntId(file.rows[i])]
                  ELSE IF \A i \in 1..Len(file.rows) :
                             file.rows[i] \in NumText \cup FloatText \cup {""}
                  THEN [i \in 1..Len(file.rows) |->
                           IF file.rows[i] = "" THEN NaN
                           ELSE IF file.rows[i] \in NumText
                                THEN FloatId(file.rows[i])
                                ELSE [k |-> "float", v |-> file.rows[i]]]
                  ELSE [i \in 1..Len(file.rows) |->
                           IF file.rows[i] = "" THEN NaN
                           ELSE StrId(file.rows[i])]]

\* ---- Change Detector ----------------------------------------------------
\* the update loop run over the appeared rows only: a record seen before keeps
\* its old date
detect_only_new(df, prior, export, day) ==
    LET current_ids     == Range(df)
        new             == SelectSeq(df, LAMBDA r : r \notin DOMAIN prior)
        disappeared_ids == DOMAIN prior \ current_ids
        historical      == read_csv(export)
        disappeared     ==
            IF disappeared_ids = {} \/ historical.raised
            THEN <<>>
            ELSE SelectSeq(historical.ids, LAMBDA r : r \in disappeared_ids)
        touched         == {str(id) : id \in Range(new)} \ DOMAIN prior
        updated         == [key \in DOMAIN prior \cup touched |->
                               IF key \in touched THEN day ELSE prior[key]]
    IN  [new_df |-> new, disappeared_df |-> disappeared, seen_ids |-> updated]

\* the update loop run over every key of the state: absent records are
\* stamped with today as well
detect_restamp(df, prior, export, day) ==
    LET current_ids     == Range(df)
        new             == SelectSeq(df, LAMBDA r : r \notin DOMAIN prior)
        disappeared_ids == DOMAIN prior \ current_ids
        historical      == read_csv(export)
        disappeared     ==
            IF disappeared_ids = {} \/ historical.raised
            THEN <<>>
            ELSE SelectSeq(historical.ids, LAMBDA r : r \in disappeared_ids)
        touched         == {str(id) : id \in current_ids}
        updated         == [key \in DOMAIN prior \cup touched |-> day]
    IN  [new_df |-> new, disappeared_df |-> disappeared, seen_ids |-> updated]

\* the appeared rows taken last row first (new_df = df.loc[new_mask][::-1])
detect_reversed(df, prior, export, day) ==
    LET current_ids     == Range(df)
        kept            == SelectSeq(df, LAMBDA r : r \notin DOMAIN prior)
        new             == [i \in 1..Len(kept) |-> kept[Len(kept) + 1 - i]]
        disappeared_ids == DOMAIN prior \ current_ids
        historical      == read_csv(export)
        disappeared     ==
            IF disappeared_ids = {} \/ historical.raised
            THEN <<>>
            ELSE SelectSeq(historical.ids, LAMBDA r : r \in disappeared_ids)
        touched         == {str(id) : id \in current_ids}
        updated         == [key \in DOMAIN prior \cup touched |->
                               IF key \in touched THEN day ELSE prior[key]]
    IN  [new_df |-> new, disappeared_df |-> disappeared, seen_ids |-> updated]

\* process_opportunities(df), with the files and the clock it reads made
\* explicit.  prior is the mapping load_seen_ids returned.
detect(df, prior, export, day) ==
    LET current_ids     == Range(df)
        new             == SelectSeq(df, LAMBDA r : r \notin DOMAIN prior)
        disappeared_ids == DOMAIN prior \ current_ids
        historical      == read_csv(export)
        disappeared     ==
            IF disappeared_ids = {} \/ historical.raised
            THEN <<>>
            ELSE SelectSeq(historical.ids, LAMBDA r : r \in disappeared_ids)
        touched         == {str(id) : id \in current_ids}
        updated         == [key \in DOMAIN prior \cup touched |->
                               IF key \in touched THEN day ELSE prior[key]]
    IN  [new_df |-> new, disappeared_df |-> disappeared, seen_ids |-> updated]

process_opportunities(df, file, export, day) ==
    detect(df, load_seen_ids(file).val, export, day)

\* ---- main(): one run ----------------------------------------------------
NoRun == [pc |-> "idle", failed_at |-> "none", snap |-> <<>>,
          new |-> <<>>, dis |-> <<>>]

Init ==
    /\ pc = "idle"
    /\ today = 1
    /\ seen_file = MissingFile
    /\ export_file = NoExport
    /\ df_filtered = <<>>
    /\ new_df = <<>>
    /\ disappeared_df = <<>>
    /\ seen_ids = EmptyDict
    /\ posted_new = <<>>
    /\ posted_dis = <<>>
    /\ exit_code = 0
    /\ failed_at = "none"
    /\ file_before = MissingFile
    /\ observed = {}
    /\ prev = NoRun
    /\ intact = TRUE
    /\ v1_file = NoListFile
    /\ v1_before = NoListFile

Stopped == pc \in {"idle", "done", "failed", "crashed"}

DeliveryFailed == pc = "failed" /\ failed_at \in {"post_new", "post_disappeared"}

\* the scheduler starts the next process: nothing of the previous one is left
\* but the files
StartRun ==
    /\ Stopped
    /\ today' \in today..MaxDay
    /\ new_df' = <<>>
    /\ disappeared_df' = <<>>
    /\ seen_ids' = EmptyDict
    /\ posted_new' = <<>>
    /\ posted_dis' = <<>>
    /\ file_before' = seen_file
    /\ prev' = IF pc = "idle" THEN NoRun
               ELSE [pc |-> pc, failed_at |-> failed_at, snap |-> df_filtered,
                     new |-> IF DeliveryFailed THEN new_df ELSE <<>>,
                     dis |-> IF DeliveryFailed THEN disappeared_df ELSE <<>>]
    /\ UNCHANGED <<seen_file, export_file, observed, intact>>

\* the except clause that logs the exception and leaves out sys.exit(1)
Abort_swallowed(step) ==
    /\ pc' = "failed"
    /\ failed_at' = step
    /\ exit_code' = 0

\* an exception reaches main's except clause: logged, sys.exit(1)
Abort(step) ==
    /\ pc' = "failed"
    /\ failed_at' = step
    /\ exit_code' = 1

\* lines 139-146: the fetch succeeds and the filter leaves a snapshot
main_fetch ==
    /\ StartRun
    /\ UNCHANGED <<v1_file, v1_before>>
    /\ \E snap \in Snapshots : df_filtered' = snap
    /\ pc' = "fetched"
    /\ exit_code' = 0
    /\ failed_at' = "none"

\* line 139: fetch_forecast raises (network error, HTTP error status)
main_fetch_fails ==
    /\ StartRun
    /\ UNCHANGED <<v1_file, v1_before>>
    /\ df_filtered' = <<>>
    /\ Abort("fetch")

\* lines 141-145: the feed answered with an empty collection; the frame has
\* no NAICS column and the filter raises KeyError
main_filter_fails ==
    /\ StartRun
    /\ UNCHANGED <<v1_file, v1_before>>
    /\ df_filtered' = <<>>
    /\ Abort("filter")

\* lines 139-146 on a feed in which one record of the category has no id
main_fetch_malformed ==
    /\ StartRun
    /\ UNCHANGED <<v1_file, v1_before>>
    /\ \E raw \in MalformedFeeds : df_filtered' = DataFrame(raw)
    /\ pc' = "fetched"
    /\ exit_code' = 0
    /\ failed_at' = "none"

\* lines 149, 109 on a feed in which no record has the id field: the frame has
\* no ID column and df["ID"] raises KeyError before anything is written
main_id_column_missing ==
    /\ StartRun
    /\ UNCHANGED <<v1_file, v1_before>>
    /\ df_filtered' = <<>>
    /\ Abort("process")

\* line 149
main_process ==
    /\ pc = "fetched"
    /\ LET loaded == load_seen_ids(seen_file)
           r      == detect(df_filtered, loaded.val, export_file, today)
       IN  IF loaded.raised
           THEN /\ Abort("process")
                /\ UNCHANGED <<new_df, disappeared_df, seen_ids>>
           ELSE /\ pc' = "processed"
                /\ new_df' = r.new_df
                /\ disappeared_df' = r.disappeared_df
                /\ seen_ids' = r.seen_ids
                /\ UNCHANGED <<exit_code, failed_at>>
    /\ UNCHANGED <<v1_file, v1_before, today, seen_file, export_file, df_filtered, posted_new,
                   posted_dis, file_before, observed, prev, intact>>

\* line 152, first half: open(seen_ids_path, "w")
main_save_open ==
    /\ pc = "processed"
    /\ pc' = "saving"
    /\ seen_file' = save_open(seen_file)
    /\ UNCHANGED <<v1_file, v1_before, today, export_file, df_filtered, new_df, disappeared_df,
                   seen_ids, posted_new, posted_dis, exit_code, failed_at,
                   file_before, observed, prev, intact>>

\* line 152, second half: json.dump and close
main_save_dump ==
    /\ pc = "saving"
    /\ pc' = "saved"
    /\ seen_file' = save_dump(seen_file, seen_ids)
    /\ observed' = observed \cup Range(df_filtered)
    /\ UNCHANGED <<v1_file, v1_before, today, export_file, df_filtered, new_df, disappeared_df,
                   seen_ids, posted_new, posted_dis, exit_code, failed_at,
                   file_before, prev, intact>>

\* lines 200-203
main_export ==
    /\ pc = "saved"
    /\ pc' = "exported"
    /\ export_file' = to_csv(df_filtered)
    /\ UNCHANGED <<v1_file, v1_before, today, seen_file, df_filtered, new_df, disappeared_df,
                   seen_ids, posted_new, posted_dis, exit_code, failed_at,
                   file_before, observed, prev, intact>>

\* lines 207-215; post_to_teams either delivers or raises
main_post_new ==
    /\ pc = "exported"
    /\ IF Len(new_df) > 0
       THEN \E delivered \in BOOLEAN :
               IF delivered
               THEN /\ posted_new' = new_df
                    /\ pc' = "posted_new"
                    /\ UNCHANGED <<exit_code, failed_at>>
               ELSE /\ Abort("post_new")
                    /\ UNCHANGED posted_new
       ELSE /\ pc' = "posted_new"
            /\ UNCHANGED <<posted_new, exit_code, failed_at>>
    /\ UNCHANGED <<v1_file, v1_before, today, seen_file, export_file, df_filtered, new_df,
                   disappeared_df, seen_ids, posted_dis, file_before, observed,
                   prev, intact>>

\* lines 218-231
main_post_disappeared ==
    /\ pc = "posted_new"
    /\ IF Len(disappeared_df) > 0
       THEN \E delivered \in BOOLEAN :
               IF delivered
               THEN /\ posted_dis' = [i \in 1..Len(disappeared_df) |->
                                        <<disappeared_df[i],
                                          seen_ids[str(disappeared_df[i])]>>]
                    /\ pc' = "done"
                    /\ UNCHANGED <<exit_code, failed_at>>
               ELSE /\ Abort("post_disappeared")
                    /\ UNCHANGED posted_dis
       ELSE /\ pc' = "done"
            /\ UNCHANGED <<posted_dis, exit_code, failed_at>>
    /\ UNCHANGED <<v1_file, v1_before, today, seen_file, export_file, df_filtered, new_df,
                   disappeared_df, seen_ids, posted_new, file_before, observed,
                   prev, intact>>

\* the process is stopped from outside (kill, power loss) after the state file
\* was opened for writing or before the export is rewritten; a stop anywhere
\* else leaves the files as a failed fetch or a failed post leaves them
crash ==
    /\ pc \in {"saving", "saved"}
    /\ pc' = "crashed"
    /\ intact' = (intact /\ pc # "saving")
    /\ UNCHANGED <<v1_file, v1_before, today, seen_file, export_file, df_filtered, new_df,
                   disappeared_df, seen_ids, posted_new, posted_dis, exit_code,
                   failed_at, file_before, observed, prev>>

Next ==
    \/ main_fetch
    \/ main_fetch_fails
    \/ main_filter_fails
    \/ main_process
    \/ main_save_open
    \/ main_save_dump
    \/ main_export
    \/ main_post_new
    \/ main_post_disappeared
    \/ crash

Spec == Init /\ [][Next]_vars

\* the runs of main() on feeds that may hold records without an id
NextMalformed ==
    \/ Next
    \/ main_fetch_malformed
    \/ main_id_column_missing

SpecMalformed == Init /\ [][NextMalformed]_vars

\* ---- fetch_forecast.py (v1): one run -----------------------------------
\* load_seen_ids: set(json.load(f)), or set() when the file is absent or
\* unparseable
v1_load_seen_ids(file) == IF file.st = "ok" THEN file.ids ELSE {}

\* save_seen_ids: open(path, "w") truncates the file, then sorted(seen) is
\* evaluated and dumped.  sorted raises TypeError on a set that holds both
\* numbers and strings, after the file has been truncated.
v1_sortable(seen) == \A a, b \in seen : a.k = b.k

v1_save_seen_ids(file, seen) ==
    IF v1_sortable(seen)
    THEN [raised |-> FALSE, file |-> ListFile(seen)]
    ELSE [raised |-> TRUE, file |-> TruncatedListFile]

\* what no step of v1 after the fetch touches
v1_frame == <<today, seen_file, disappeared_df, seen_ids, posted_dis,
              file_before, observed, prev, intact, v1_before, df_filtered>>

\* lines 65-72
v1_fetch ==
    /\ StartRun
    /\ v1_before' = v1_file
    /\ UNCHANGED v1_file
    /\ \E snap \in Snapshots : df_filtered' = snap
    /\ pc' = "fetched"
    /\ exit_code' = 0
    /\ failed_at' = "none"

\* line 65: fetch_forecast raises
v1_fetch_fails ==
    /\ StartRun
    /\ v1_before' = v1_file
    /\ UNCHANGED v1_file
    /\ df_filtered' = <<>>
    /\ Abort("fetch")

\* lines 75-82: the unseen rows; with none of them main returns
v1_detect ==
    /\ pc = "fetched"
    /\ LET seen == v1_load_seen_ids(v1_file)
           new  == SelectSeq(df_filtered, LAMBDA r : r \notin seen)
       IN  /\ new_df' = new
           /\ pc' = IF Len(new) = 0 THEN "done" ELSE "detected"
    /\ UNCHANGED <<v1_file, export_file, posted_new, exit_code, failed_at>>
    /\ UNCHANGED v1_frame

\* lines 183-192: the export is written, or to_csv raises
v1_export ==
    /\ pc = "detected"
    /\ \E written \in BOOLEAN :
          IF written
          THEN /\ export_file' = to_csv(df_filtered)
               /\ pc' = "exported"
               /\ UNCHANGED <<exit_code, failed_at>>
          ELSE /\ Abort("export")
               /\ UNCHANGED export_file
    /\ UNCHANGED <<v1_file, new_df, posted_new>>
    /\ UNCHANGED v1_frame

\* lines 234-235: post_to_teams delivers or raises
v1_post ==
    /\ pc = "exported"
    /\ \E delivered \in BOOLEAN :
          IF delivered
          THEN /\ posted_new' = new_df
               /\ pc' = "posted_new"
               /\ UNCHANGED <<exit_code, failed_at>>
          ELSE /\ Abort("post_new")
               /\ UNCHANGED posted_new
    /\ UNCHANGED <<v1_file, export_file, new_df>>
    /\ UNCHANGED v1_frame

\* lines 238-241: seen_ids |= set(new_df["ID"]); save_seen_ids(seen_ids)
v1_save ==
    /\ pc = "posted_new"
    /\ LET seen == v1_load_seen_ids(v1_file) \cup Range(new_df)
           r    == v1_save_seen_ids(v1_file, seen)
       IN  /\ v1_file' = r.file
           /\ IF r.raised
              THEN Abort("save")
              ELSE pc' = "done" /\ UNCHANGED <<exit_code, failed_at>>
    /\ UNCHANGED <<export_file, new_df, posted_new>>
    /\ UNCHANGED v1_frame

NextV1 ==
    \/ v1_fetch
    \/ v1_fetch_fails
    \/ v1_detect
    \/ v1_export
    \/ v1_post
    \/ v1_save

SpecV1 == Init /\ [][NextV1]_vars

\* ---- vocabulary of the properties ---------------------------------------
\* the logical records of a frame: the state store knows a record by str(id)
Keys(df) == {str(df[i]) : i \in 1..Len(df)}

\* the mapping a run starts from
Prior == load_seen_ids(file_before).val

\* the run has gone through load, detect and save
Saved == pc \in {"saved", "exported", "posted_new", "done"} \/ DeliveryFailed

PrevDelivered == prev.pc = "done"
PrevDeliveryFailed ==
    prev.pc = "failed" /\ prev.failed_at \in {"post_new", "post_disappeared"}

\* C1: over runs whose saves all completed, a record is reported as appeared
\* in the first run whose snapshot holds its id and in no later run: a row of
\* the snapshot is in new_df exactly when no earlier saved snapshot held its id.
C1_AppearedExactlyOnce ==
    (pc = "processed" /\ intact) =>
        \A i \in 1..Len(df_filtered) :
            (df_filtered[i] \in Range(new_df)) <=> (df_filtered[i] \notin observed)

\* C2: calling process_opportunities again on the same snapshot, with the state
\* the first call returned as the saved state and the export and the date
\* unchanged, reports nothing appeared and nothing disappeared.
C2_Idempotent ==
    pc = "processed" =>
        LET again == process_opportunities(df_filtered, JsonFile(seen_ids),
                                           export_file, today)
        IN  again.new_df = <<>> /\ again.disappeared_df = <<>>

\* C3: after two runs that both completed, every record of the earlier
\* snapshot that is absent now has been posted as disappeared, and no record
\* seen before that was already absent from the earlier snapshot, and is still
\* absent, is posted as disappeared.
C3_DisappearedExactlyOnce ==
    (pc = "done" /\ PrevDelivered) =>
        LET reported == {str(posted_dis[i][1]) : i \in 1..Len(posted_dis)}
        IN  /\ Keys(prev.snap) \ Keys(df_filtered) \subseteq reported
            /\ \A id \in observed :
                  str(id) \notin Keys(prev.snap) \cup Keys(df_filtered)
                      => str(id) \notin reported

\* C4: a run that saved removed no key from the state file, and a record seen
\* earlier, absent from the previous completed run's snapshot and present
\* again is not in new_df.
C4_KeptForeverSilentReturn ==
    /\ (Saved /\ pc # "saving") => DOMAIN Prior \subseteq DOMAIN seen_file.map
    /\ (pc = "processed" /\ intact /\ PrevDelivered) =>
          \A i \in 1..Len(df_filtered) :
              (df_filtered[i] \in observed /\ df_filtered[i] \notin Range(prev.snap))
                  => df_filtered[i] \notin Range(new_df)

\* C5: every key of the prior state whose record is absent from the snapshot
\* is in disappeared_df, also when the export has no row for it or is missing.
C5_NoSignalLost ==
    pc = "processed" =>
        \A key \in DOMAIN Prior \ Keys(df_filtered) :
            (export_file.st = "missing" \/ key.v \notin Range(export_file.rows))
                => key \in Keys(disappeared_df)

\* C6: nothing is posted before the save has completed; a failed post exits 1
\* with the saved state in place; and the run after a failed post, on the same
\* snapshot, reports none of the failed run's appeared or disappeared records.
C6_SaveBeforeNotify ==
    /\ (posted_new # <<>> \/ posted_dis # <<>>) => seen_file = JsonFile(seen_ids)
    /\ DeliveryFailed => (exit_code = 1 /\ seen_file = JsonFile(seen_ids))
    /\ (pc = "processed" /\ PrevDeliveryFailed /\ df_filtered = prev.snap) =>
          /\ Keys(new_df) \cap Keys(prev.new) = {}
          /\ Keys(disappeared_df) \cap Keys(prev.dis) = {}

\* C7: when the process stops during save_seen_ids, the state file holds the
\* complete previous contents or the complete new contents: the next load
\* returns the mapping the run started from or the mapping it was saving.
C7_AtomicSave ==
    pc = "crashed" => load_seen_ids(seen_file).val \in {Prior, seen_ids}

\* C8: with the state file missing or unparseable, process_opportunities does
\* not raise: the step after the fetch ends with every snapshot row appeared
\* and nothing disappeared.
C8_CorruptStateRecovery ==
    [][(pc = "fetched" /\ seen_file.st # "ok") =>
          /\ pc' = "processed"
          /\ new_df' = df_filtered
          /\ disappeared_df' = <<>>
          /\ DOMAIN seen_ids' = Keys(df_filtered)]_vars

C8_Witness ==
    /\ pc = "processed"
    /\ seen_file.st = "corrupt"
    /\ Len(df_filtered) = 2
    /\ new_df = df_filtered
    /\ disappeared_df = <<>>

\* C9: a run that fails before save_seen_ids leaves the state file as it was
\* when the run started, posts nothing and exits with status 1.
C9_AbortBeforeSave ==
    (pc = "failed" /\ failed_at \in {"fetch", "filter", "process"}) =>
        /\ seen_file = file_before
        /\ posted_new = <<>>
        /\ posted_dis = <<>>
        /\ exit_code = 1

C9_Witness ==
    /\ pc = "failed"
    /\ failed_at = "fetch"
    /\ seen_file.st = "ok"
    /\ DOMAIN seen_file.map # {}
    /\ exit_code = 1

\* C10: no logical record is both in new_df and in disappeared_df of one call.
C10_Disjoint ==
    pc = "processed" => Keys(new_df) \cap Keys(disappeared_df) = {}

\* C11: after process_opportunities every record of the snapshot is a key of
\* the returned state, stamped with today, whether or not the prior state had
\* it.
C11_Conservation ==
    pc = "processed" =>
        \A i \in 1..Len(df_filtered) :
            /\ str(df_filtered[i]) \in DOMAIN seen_ids
            /\ seen_ids[str(df_filtered[i])] = today

C11_Witness ==
    /\ pc = "processed"
    /\ Len(df_filtered) = 2
    /\ \E i, j \in 1..2 :
          /\ str(df_filtered[i]) \in DOMAIN Prior
          /\ Prior[str(df_filtered[i])] < today
          /\ str(df_filtered[j]) \notin DOMAIN Prior
    /\ \A i \in 1..2 : seen_ids[str(df_filtered[i])] = today

\* the disappeared records a run posted whose record is not in its snapshot
GoneAndPosted ==
    {i \in 1..Len(posted_dis) : str(posted_dis[i][1]) \notin Keys(df_filtered)}

C15_RoundTrip ==
    (pc = "saved" /\ seen_ids # EmptyDict) =>
        /\ ~load_seen_ids(seen_file).raised
        /\ load_seen_ids(seen_file).val = seen_ids

C15_Witness ==
    /\ pc = "saved"
    /\ Cardinality(DOMAIN seen_ids) = 2
    /\ \E a, b \in DOMAIN seen_ids : seen_ids[a] # seen_ids[b]
    /\ IntId("1") \in Range(df_filtered)
    /\ load_seen_ids(seen_file).val = seen_ids

\* a comes before b in the sequence s
Precedes(s, a, b) ==
    \E i, j \in 1..Len(s) : i < j /\ s[i] = a /\ s[j] = b

\* C16: the rows of new_df are in the order of the snapshot, and the rows of
\* disappeared_df are in the order of the export they are read from, which is
\* the order of the snapshot that wrote it; nothing is re-sorted.
C16_OrderPreserved ==
    /\ pc = "processed" =>
          /\ \A a, b \in Range(new_df) :
                Precedes(new_df, a, b) <=> Precedes(df_filtered, a, b)
          /\ \A a, b \in Range(disappeared_df) :
                Precedes(disappeared_df, a, b)
                    <=> Precedes(export_file.rows, a.v, b.v)
    /\ pc = "exported" =>
          \A a, b \in Range(df_filtered) :
              Precedes(export_file.rows, a.v, b.v) <=> Precedes(df_filtered, a, b)

C16_Witness ==
    /\ pc = "processed"
    /\ new_df = <<StrId("A"), IntId("1")>>
    /\ df_filtered = new_df

\* C13: a record without the id field is not reported as appeared and adds no
\* key to the state, and the run goes on.
C13_MalformedExcluded ==
    (pc = "processed" /\ NaN \in Range(df_filtered)) =>
        /\ NaN \notin Range(new_df)
        /\ str(NaN) \notin DOMAIN seen_ids

\* C14: no run ends in an exception because the feed is empty or every record
\* lacks the id; a run on an empty snapshot reports nothing appeared and every
\* key of the prior state disappeared, and saves the prior keys and dates
\* unchanged.
C14_EmptySnapshotProcessed ==
    /\ failed_at \notin {"filter", "process"}
    /\ (pc = "processed" /\ df_filtered = <<>>) =>
          /\ new_df = <<>>
          /\ DOMAIN Prior \subseteq Keys(disappeared_df)
    /\ (pc = "saved" /\ df_filtered = <<>>) =>
          load_seen_ids(seen_file).val = Prior

\* C17: in fetch_forecast.py the seen set is saved only after the post has
\* succeeded; a run that fails at the fetch, the export or the post, or finds
\* no unseen record, leaves the file as it was; the run after a failed post on
\* the same snapshot reports the same new records; and the saved set only
\* grows: a completed save holds the prior set united with the ids posted.
C17_V1SavedAfterPost ==
    /\ v1_file # v1_before => (posted_new = new_df /\ new_df # <<>>)
    /\ (pc = "failed" /\ failed_at \in {"fetch", "export", "post_new"}) =>
          v1_file = v1_before
    /\ (pc = "done" /\ new_df = <<>>) => v1_file = v1_before
    /\ (pc = "detected" /\ PrevDeliveryFailed /\ df_filtered = prev.snap) =>
          new_df = prev.new
    /\ v1_load_seen_ids(v1_before) \subseteq v1_load_seen_ids(v1_file)
    /\ (pc = "done" /\ new_df # <<>>) =>
          v1_load_seen_ids(v1_file)
              = v1_load_seen_ids(v1_before) \cup Range(new_df)

====
